---- MODULE Spec2Model ----
\* A model of generic-global-variables (src/src/lib.rs): GenericGlobal, a
\* registry RwLock<HashMap<TypeId, Arc<dyn Any>>>, its one operation
\* get_or_init::<T>(f), and the typed handle Entry<T>.
\*
\* Every thread runs get_or_init as a sequence of steps; a step boundary is
\* placed at every lock operation and around the call of the factory f, which
\* are the points where other threads can interleave observably.
EXTENDS Integers, Sequences, FiniteSets, Bags, TLC

\* ---------------------------------------------------------------- bounds
NThreads == 2
MaxCalls == 3
\* How many Entry handles exist at most when one of them is cloned.
MaxEntries == 3

Threads == 1..NThreads
\* The static types T the callers instantiate get_or_init with; TypeId::of::<T>()
\* is injective, so a type and its TypeId are the same token here.
Types == {"T1", "T2"}
\* The values a factory can produce (42 and 99 are the spec's Scenario C).
Vals == {42, 99}

\* Option<X>: None is the empty sequence, Some(x) the one-element sequence.
None == << >>
Some(x) == << x >>
IsSome(o) == o # << >>
Unwrap(o) == o[1]

VARIABLES
    pc,           \* pc[t]: where thread t stands in get_or_init ("idle": outside)
    typeid,       \* typeid[t]: the local `typeid` = TypeId::of::<T>() of t's call
    arc,          \* arc[t]: the local `arc` (line 92), None before Arc::new
    outer,        \* outer[t]: the suspended frames of t (a call whose factory re-entered)
    lock,         \* the RwLock's state: who holds which mode
    map,          \* the HashMap<TypeId, Arc<dyn Any>>: TypeId -> Option<arc id>
    heap,         \* the Arc allocations: arc id -> [tid, val, strong]
    invoked,      \* invoked[T]: how many times a factory for T has been called
    trace,        \* per call in flight: what it has done so far (locks taken, ...)
    hist,         \* hist[t]: the outcomes of t's completed top-level calls
    assertFailed, \* whether debug_assert!(option.is_none()) has ever failed
    calls,        \* how many top-level calls of get_or_init have been made
    entries,      \* the Entry<T> handles that exist (a bag: clones are equal)
    dropped       \* whether the GenericGlobal has been dropped

vars == << pc, typeid, arc, outer, lock, map, heap, invoked, trace, hist, assertFailed, calls,
          entries, dropped >>

\* ------------------------------------------------------------ the RwLock
\* parking_lot::RwLock. `writer` holds the write guard; `upgrading` has set
\* the writer bit by RwLockUpgradableReadGuard::upgrade and waits for the
\* readers to leave; `upgradable` holds the upgradable-read guard.
WriterBit(l) == l.writer # {} \/ l.upgrading # {}

\* A faulty read(): granted although a thread holds the write guard.
ReadGrantedIgnoringWriter(l) == l.upgrading = {}
\* read() is granted when the writer bit is clear.
ReadGranted(l) == ~WriterBit(l)

\* A faulty upgradable_read(): granted although another thread holds the
\* upgradable guard (as a plain read() would be).
UpgradableGrantedNotExclusive(l) == ~WriterBit(l)
\* upgradable_read() is granted when neither the writer bit nor the
\* upgradable bit is set ("only blocks other UpgradableReadGuard and
\* WriteGuard"); readers do not matter.
UpgradableGranted(l) == ~WriterBit(l) /\ l.upgradable = {}

\* A faulty upgrade(): it does not wait for the readers.
UpgradeGrantedNoWait(l) == TRUE
\* upgrade() completes when no shared reader is left.
UpgradeGranted(l) == l.readers = {}

\* The guards' effects on the lock: taking a mode, and dropping its guard.
TakeShared(l, t) == [l EXCEPT !.readers = @ \cup {t}]
TakeUpgradable(l, t) == [l EXCEPT !.upgradable = @ \cup {t}]
BeginUpgrade(l, t) == [l EXCEPT !.upgradable = @ \ {t}, !.upgrading = @ \cup {t}]
\* A faulty upgrade(): it returns with the upgradable mode, not the write mode.
FinishUpgradeStillUpgradable(l, t) ==
    [l EXCEPT !.upgrading = @ \ {t}, !.upgradable = @ \cup {t}]
FinishUpgrade(l, t) == [l EXCEPT !.upgrading = @ \ {t}, !.writer = @ \cup {t}]
\* A faulty variant: the shared guard of line 72 is kept alive past line 74.
DropSharedKept(l, t) == l
\* The temporary shared guard of line 72 drops at the end of the `if let`.
DropShared(l, t) == [l EXCEPT !.readers = @ \ {t}]
\* The upgradable guard drops at the return of line 87.
DropUpgradable(l, t) == [l EXCEPT !.upgradable = @ \ {t}]
\* The write guard drops at the return of line 98.
DropWrite(l, t) == [l EXCEPT !.writer = @ \ {t}]
\* A faulty variant: the unwinding leaves the lock write-locked.
UnwindWriteLeaked(l, t) == l
\* The write guard drops while f's panic unwinds through line 92 (the lock
\* has no poisoning: it is simply unlocked).
UnwindWrite(l, t) == [l EXCEPT !.writer = @ \ {t}]

\* What a call in flight has done so far: the lock modes it acquired, whether
\* its typeid was present when it took the shared lock, whether it called f,
\* the value f returned, and whether f has called get_or_init.
EmptyTrace ==
    [locks |-> {}, seen |-> FALSE, ran |-> FALSE, produced |-> None,
     reentered |-> FALSE, path |-> "none"]

\* The locals of a thread that is outside get_or_init (they do not exist).
NoFrame ==
    [typeid |-> "-", trace |-> EmptyTrace]

\* ------------------------------------------------------------ Arc
\* Arc::new(v) for a value of runtime type T: a fresh allocation, one owner.
ArcNew(h, T, v) == Append(h, [tid |-> T, val |-> v, strong |-> 1])
\* A faulty clone: the pointer is copied, the owner count is not raised.
ArcCloneNoCount(h, a) == h
\* Arc::clone(&a): one more owner of the same allocation.
ArcClone(h, a) == [h EXCEPT ![a].strong = @ + 1]
\* drop(a): one owner fewer.
ArcDrop(h, a) == [h EXCEPT ![a].strong = @ - 1]

\* Entry::new(arc): Entry<T>(arc, PhantomData<T>).
EntryNew(T, a) == [T |-> T, arc |-> a]

\* <dyn Any>::downcast_ref::<T>(&*self.0): Some(&value) iff the runtime type
\* of the allocation is T.
downcast_ref(e) ==
    IF heap[e.arc].tid = e.T THEN Some(heap[e.arc].val) ELSE None

\* A faulty lookup: it never finds the key.
GetNothing(m, k) == None
\* HashMap::get(&typeid)
Get(m, k) == m[k]

\* ------------------------------------------------------------ get_or_init
\* The end of a call of thread t with result r (Some(entry), or None when the
\* factory unwound through it): a top-level call is recorded in hist and the
\* thread is outside again; a call made from inside a factory returns into
\* that factory, which then runs to its end.
Return(t, r, tr) ==
    /\ entries' = IF IsSome(r) THEN entries (+) SetToBag({Unwrap(r)}) ELSE entries
    /\ IF outer[t] = << >>
       THEN /\ hist' = [hist EXCEPT ![t] = Append(@,
                           [typeid |-> typeid[t], result |-> r,
                            locks |-> tr.locks, seen |-> tr.seen,
                            ran |-> tr.ran, produced |-> tr.produced,
                            path |-> tr.path])]
            /\ pc' = [pc EXCEPT ![t] = "idle"]
            /\ typeid' = [typeid EXCEPT ![t] = NoFrame.typeid]
            /\ trace' = [trace EXCEPT ![t] = NoFrame.trace]
            /\ UNCHANGED outer
       ELSE /\ pc' = [pc EXCEPT ![t] = "running"]
            /\ typeid' = [typeid EXCEPT ![t] = Head(outer[t]).typeid]
            /\ trace' = [trace EXCEPT ![t] = Head(outer[t]).trace]
            /\ outer' = [outer EXCEPT ![t] = Tail(@)]
            /\ UNCHANGED hist

\* line 69-70: a caller enters get_or_init::<T>(f). The factory f is a
\* closure: what it does is decided when it is called (line 92).
Call(t) ==
    /\ pc[t] = "idle"
    /\ ~dropped
    /\ calls < MaxCalls
    /\ calls' = calls + 1
    /\ \E T \in Types : typeid' = [typeid EXCEPT ![t] = T]
    /\ pc' = [pc EXCEPT ![t] = "read"]
    /\ trace' = [trace EXCEPT ![t] = EmptyTrace]
    /\ UNCHANGED << arc, outer, lock, map, heap, invoked, hist, assertFailed, entries, dropped >>

\* line 72: self.0.read() returns the shared guard.
LockShared(t) ==
    /\ pc[t] = "read"
    /\ ReadGranted(lock)
    /\ lock' = TakeShared(lock, t)
    /\ trace' = [trace EXCEPT ![t].locks = @ \cup {"read"},
                              ![t].seen = IsSome(map[typeid[t]])]
    /\ pc' = [pc EXCEPT ![t] = "lookup"]
    /\ UNCHANGED << typeid, arc, outer, map, heap, invoked, hist, assertFailed, calls, entries, dropped >>

\* line 72-74, hit: .get(&typeid) is Some(val); return Entry::new(Arc::clone(val)),
\* the shared guard dropping at the end of the statement.
FastPathHit(t) ==
    /\ pc[t] = "lookup"
    /\ IsSome(Get(map, typeid[t]))
    /\ LET val == Unwrap(Get(map, typeid[t]))
       IN  /\ heap' = ArcClone(heap, val)
           /\ Return(t, Some(EntryNew(typeid[t], val)),
                     [trace[t] EXCEPT !.path = "fast"])
    /\ lock' = DropShared(lock, t)
    /\ UNCHANGED << arc, map, invoked, assertFailed, calls, dropped >>

\* line 72-74, miss: .get(&typeid) is None; the shared guard drops at the end
\* of the `if let` statement, before line 83.
FastPathMiss(t) ==
    /\ pc[t] = "lookup"
    /\ ~IsSome(Get(map, typeid[t]))
    /\ lock' = DropShared(lock, t)
    /\ pc' = [pc EXCEPT ![t] = "upgradable_read"]
    /\ UNCHANGED << typeid, arc, outer, map, heap, invoked, trace, hist, assertFailed, calls, entries, dropped >>

\* line 83: self.0.upgradable_read() returns the upgradable guard.
LockUpgradable(t) ==
    /\ pc[t] = "upgradable_read"
    /\ UpgradableGranted(lock)
    /\ lock' = TakeUpgradable(lock, t)
    /\ trace' = [trace EXCEPT ![t].locks = @ \cup {"upgradable"}]
    /\ pc' = [pc EXCEPT ![t] = "recheck"]
    /\ UNCHANGED << typeid, arc, outer, map, heap, invoked, hist, assertFailed, calls, entries, dropped >>

\* line 86-88, hit: another writer has added the typeid; return a handle to
\* it, dropping the upgradable guard.
RecheckHit(t) ==
    /\ pc[t] = "recheck"
    /\ IsSome(Get(map, typeid[t]))
    /\ LET val == Unwrap(Get(map, typeid[t]))
       IN  /\ heap' = ArcClone(heap, val)
           /\ Return(t, Some(EntryNew(typeid[t], val)),
                     [trace[t] EXCEPT !.path = "recheck"])
    /\ lock' = DropUpgradable(lock, t)
    /\ UNCHANGED << arc, map, invoked, assertFailed, calls, dropped >>

\* line 86-91, miss: the typeid is still absent; upgrade(guard) sets the
\* writer bit and gives up the upgradable bit, then waits for the readers.
RecheckMiss(t) ==
    /\ pc[t] = "recheck"
    /\ ~IsSome(Get(map, typeid[t]))
    /\ lock' = BeginUpgrade(lock, t)
    /\ pc' = [pc EXCEPT ![t] = "upgrade"]
    /\ UNCHANGED << typeid, arc, outer, map, heap, invoked, trace, hist, assertFailed, calls, entries, dropped >>

\* line 91: upgrade(guard) returns the write guard once no reader is left.
Upgrade(t) ==
    /\ pc[t] = "upgrade"
    /\ UpgradeGranted(lock)
    /\ lock' = FinishUpgrade(lock, t)
    /\ trace' = [trace EXCEPT ![t].locks = @ \cup {"write"}]
    /\ pc' = [pc EXCEPT ![t] = "factory"]
    /\ UNCHANGED << typeid, arc, outer, map, heap, invoked, hist, assertFailed, calls, entries, dropped >>

\* line 92: f() is called.
FactoryStart(t) ==
    /\ pc[t] = "factory"
    /\ invoked' = [invoked EXCEPT ![typeid[t]] = @ + 1]
    /\ trace' = [trace EXCEPT ![t].ran = TRUE]
    /\ pc' = [pc EXCEPT ![t] = "running"]
    /\ UNCHANGED << typeid, arc, outer, lock, map, heap, hist, assertFailed, calls, entries, dropped >>

\* line 92: f() returns a T, one of Vals; Arc::new puts it on the heap as
\* Arc<dyn Any> of runtime type T.
FactoryReturn(t) ==
    /\ pc[t] = "running"
    /\ \E v \in Vals :
          /\ heap' = ArcNew(heap, typeid[t], v)
          /\ trace' = [trace EXCEPT ![t].produced = Some(v)]
    /\ arc' = [arc EXCEPT ![t] = Some(Len(heap) + 1)]
    /\ pc' = [pc EXCEPT ![t] = "insert"]
    /\ UNCHANGED << typeid, outer, lock, map, invoked, hist, assertFailed, calls, entries, dropped >>

\* line 92: f() unwinds; the write guard is dropped by the unwinding, nothing
\* was allocated or inserted, and the panic leaves get_or_init.
FactoryUnwind(t) ==
    /\ pc[t] = "running"
    /\ lock' = UnwindWrite(lock, t)
    /\ Return(t, None, [trace[t] EXCEPT !.path = "unwind"])
    /\ UNCHANGED << arc, map, heap, invoked, assertFailed, calls, dropped >>

\* line 92: f() calls get_or_init::<T> on the same registry: a new frame of
\* the same thread, entered at line 69 with the write guard of the outer
\* frame still held. (A factory does so at most once.)
FactoryReenter(t) ==
    /\ pc[t] = "running"
    /\ ~trace[t].reentered
    /\ outer' = [outer EXCEPT ![t] =
                    << [typeid |-> typeid[t],
                        trace |-> [trace[t] EXCEPT !.reentered = TRUE]] >> \o @]
    /\ \E T \in Types : typeid' = [typeid EXCEPT ![t] = T]
    /\ trace' = [trace EXCEPT ![t] = EmptyTrace]
    /\ pc' = [pc EXCEPT ![t] = "read"]
    /\ UNCHANGED << arc, lock, map, heap, invoked, hist, assertFailed, calls, entries, dropped >>

\* A faulty variant: the value is inserted under another type's TypeId.
InsertKeyOther(t) == CHOOSE T \in Types : T # typeid[t]
\* line 93: the key guard.insert is called with.
InsertKey(t) == typeid[t]

\* line 93-98: guard.insert(typeid, Arc::clone(&arc)) stores the clone and
\* yields the previous value, which debug_assert! expects to be None; the
\* previous value and the write guard are dropped; Entry::new(arc) is returned.
Insert(t) ==
    /\ pc[t] = "insert"
    /\ LET k == InsertKey(t)
           a == Unwrap(arc[t])
           option == map[k]
           h1 == ArcClone(heap, a)
       IN  /\ map' = [map EXCEPT ![k] = Some(a)]
           /\ heap' = IF IsSome(option) THEN ArcDrop(h1, Unwrap(option)) ELSE h1
           /\ assertFailed' = (assertFailed \/ IsSome(option))
           /\ Return(t, Some(EntryNew(typeid[t], a)),
                     [trace[t] EXCEPT !.path = "insert"])
    /\ arc' = [arc EXCEPT ![t] = None]
    /\ lock' = DropWrite(lock, t)
    /\ UNCHANGED << invoked, calls, dropped >>

\* ------------------------------------------------------------ specification
\* GenericGlobal::new(): Self::default(), an unlocked lock around an empty map.
Init ==
    /\ pc = [t \in Threads |-> "idle"]
    /\ typeid = [t \in Threads |-> NoFrame.typeid]
    /\ arc = [t \in Threads |-> None]
    /\ outer = [t \in Threads |-> << >>]
    /\ lock = [readers |-> {}, upgradable |-> {}, upgrading |-> {}, writer |-> {}]
    /\ map = [T \in Types |-> None]
    /\ heap = << >>
    /\ invoked = [T \in Types |-> 0]
    /\ trace = [t \in Threads |-> EmptyTrace]
    /\ hist = [t \in Threads |-> << >>]
    /\ assertFailed = FALSE
    /\ calls = 0
    /\ entries = EmptyBag
    /\ dropped = FALSE

\* One step of a call in flight of thread t.
Step(t) ==
    \/ LockShared(t)
    \/ FastPathHit(t)
    \/ FastPathMiss(t)
    \/ LockUpgradable(t)
    \/ RecheckHit(t)
    \/ RecheckMiss(t)
    \/ Upgrade(t)
    \/ FactoryStart(t)
    \/ FactoryReturn(t)
    \/ Insert(t)

Next ==
    \E t \in Threads :
        \/ Call(t)
        \/ Step(t)
        \/ FactoryUnwind(t)
        \/ FactoryReenter(t)

Spec == Init /\ [][Next]_vars

\* Callers whose factories never re-enter the registry (they return or unwind).
\* Every call in flight is a running thread, which the scheduler does not
\* stop for ever: weak fairness of each thread's steps. Entering get_or_init is
\* left to the caller and is not fair.
NoReentryNext ==
    \E t \in Threads :
        \/ Call(t)
        \/ Step(t)
        \/ FactoryUnwind(t)

FairNoReentrySpec ==
    /\ Init
    /\ [][NoReentryNext]_vars
    /\ \A t \in Threads : WF_vars(Step(t) \/ FactoryUnwind(t))

\* Callers whose factories return normally and never re-enter the registry.
PlainNext ==
    \E t \in Threads :
        \/ Call(t)
        \/ Step(t)

FairPlainSpec ==
    /\ Init
    /\ [][PlainNext]_vars
    /\ \A t \in Threads : WF_vars(Step(t))

\* ------------------------------------------------------------ observations
\* No call is in flight.
Quiescent == \A t \in Threads : pc[t] = "idle"

\* The completed top-level calls, each with its thread and its position.
Completed == {c \in Threads \X (1..MaxCalls) : c[2] <= Len(hist[c[1]])}
Rec(c) == hist[c[1]][c[2]]

\* The completed calls for type T, and those of them that returned a handle.
CallsFor(T) == {c \in Completed : Rec(c).typeid = T}
HandlesFor(T) == {c \in CallsFor(T) : IsSome(Rec(c).result)}

\* How many factory invocations for T have unwound.
Unwound(T) == Cardinality({c \in CallsFor(T) : Rec(c).path = "unwind"})

\* Entry::deref of the handle a completed call returned.
Deref(c) == downcast_ref(Unwrap(Rec(c).result))

\* ------------------------------------------------------------ claims

\* C1 (as stated): for every type T the number of factory invocations never
\* exceeds one, and is exactly one once all calls have completed.
C1_AtMostOneInvocation ==
    \A T \in Types :
        /\ invoked[T] <= 1
        /\ (Quiescent /\ CallsFor(T) # {}) => invoked[T] = 1

\* C1 (amended): for every type T the number of factory invocations that did
\* not unwind never exceeds one, so the total never exceeds one while no
\* factory for T has unwound; once all calls have completed and one of them
\* returned a handle for T, exactly one invocation for T did not unwind.
C1_AtMostOneCompletedInvocation ==
    \A T \in Types :
        /\ invoked[T] - Unwound(T) <= 1
        /\ (Quiescent /\ HandlesFor(T) # {}) => invoked[T] - Unwound(T) = 1

\* Two threads raced for the same absent type: both missed on the fast path,
\* one inserted, the other found the entry on its re-check.
C1_Witness ==
    /\ Quiescent
    /\ \E T \in Types :
          /\ invoked[T] = 1
          /\ \E c, d \in HandlesFor(T) :
                /\ c[1] # d[1]
                /\ Rec(c).path = "insert"
                /\ Rec(d).path = "recheck"

\* C2: every handle get_or_init::<T> has returned references the stored value
\* the map holds under TypeId(T), so all handles for T reference one value.
C2_HandlesAreTheMapEntry ==
    \A T \in Types :
        /\ \A c \in HandlesFor(T) : map[T] = Some(Unwrap(Rec(c).result).arc)
        /\ \A c, d \in HandlesFor(T) :
              Unwrap(Rec(c).result).arc = Unwrap(Rec(d).result).arc

\* Three handles for one type, obtained on the three paths (insert, re-check
\* hit, fast-path hit) by two threads.
C2_Witness ==
    \E T \in Types :
        \E c, d, e \in HandlesFor(T) :
            /\ Rec(c).path = "insert"
            /\ Rec(d).path = "recheck"
            /\ Rec(e).path = "fast"

\* C3: once a TypeId is present in the map, every later step leaves it
\* present and mapped to the same allocation holding the same value.
C3_PresentStaysPresent ==
    [][\A T \in Types :
          IsSome(map[T]) =>
              /\ map'[T] = map[T]
              /\ heap'[Unwrap(map[T])].tid = heap[Unwrap(map[T])].tid
              /\ heap'[Unwrap(map[T])].val = heap[Unwrap(map[T])].val]_vars

\* Both types are present, and after the second insert a further call for
\* the type inserted first has completed.
C3_Witness ==
    /\ \A T \in Types : IsSome(map[T])
    /\ \E t \in Threads :
          /\ Len(hist[t]) = 3
          /\ hist[t][1].path = "insert"
          /\ hist[t][2].path = "insert"
          /\ hist[t][3].path = "fast"
          /\ hist[t][3].typeid = hist[t][1].typeid

\* C4: of two sequential calls get_or_init::<T>(f1), get_or_init::<T>(f2)
\* that both returned a handle, the second never executes f2, both handles
\* reference the same allocation and dereference to the same value, which is
\* the value f1 produced when the first call executed f1.
C4_SecondCallReusesFirst ==
    \A t \in Threads :
        \A i, j \in 1..Len(hist[t]) :
            (/\ i < j
             /\ hist[t][i].typeid = hist[t][j].typeid
             /\ IsSome(hist[t][i].result)
             /\ IsSome(hist[t][j].result))
            => /\ ~hist[t][j].ran
               /\ hist[t][j].locks = {"read"}
               /\ Unwrap(hist[t][i].result).arc = Unwrap(hist[t][j].result).arc
               /\ Deref(<< t, i >>) = Deref(<< t, j >>)
               /\ hist[t][j].produced = None
               /\ hist[t][i].ran => Deref(<< t, j >>) = hist[t][i].produced

\* Scenario C: get_or_init(|| 42) ran its factory, then get_or_init(|| 99) by
\* the same thread for the same type; both handles dereference to 42.
C4_Witness ==
    \E t \in Threads :
        /\ Len(hist[t]) >= 2
        /\ hist[t][1].typeid = hist[t][2].typeid
        /\ hist[t][1].ran /\ hist[t][1].produced = Some(42)
        /\ ~hist[t][2].ran
        /\ IsSome(hist[t][1].result) /\ IsSome(hist[t][2].result)
        /\ Deref(<< t, 1 >>) = Some(42)
        /\ Deref(<< t, 2 >>) = Some(42)

\* The thread that takes the step, and the type its call is for.
Acting(t) == pc'[t] # pc[t]

\* The stored value of T's entry: the allocation, its runtime type, its value.
StoredValue(m, h, T) ==
    IF IsSome(m[T]) THEN << m[T], h[Unwrap(m[T])].tid, h[Unwrap(m[T])].val >> ELSE << >>

\* C5: a step of a get_or_init::<T1> call leaves every other type's entry
\* alone: its presence, its stored value, its owner count and its factory
\* invocation count are unchanged.
C5_OtherTypesUntouched ==
    [][\A t \in Threads : \A T2 \in Types :
          (Acting(t) /\ typeid[t] # T2) =>
              /\ map'[T2] = map[T2]
              /\ invoked'[T2] = invoked[T2]
              /\ StoredValue(map', heap', T2) = StoredValue(map, heap, T2)
              /\ IsSome(map[T2]) => heap'[Unwrap(map[T2])] = heap[Unwrap(map[T2])]]_vars

\* Both types are stored with different values, each inserted by its own
\* call, and a call for one type hit while the other was present.
C5_Witness ==
    /\ \A T \in Types : IsSome(map[T]) /\ invoked[T] = 1
    /\ heap[Unwrap(map["T1"])].val # heap[Unwrap(map["T2"])].val
    /\ \E c \in Completed : Rec(c).path = "fast"

\* C6: the value stored under TypeId(T) has runtime type T, every handle
\* returned by get_or_init::<T> is an Entry<T> on an allocation of runtime type
\* T, and its checked downcast yields that allocation's value (never None).
C6_DowncastSucceeds ==
    /\ \A T \in Types : IsSome(map[T]) => heap[Unwrap(map[T])].tid = T
    /\ \A T \in Types : \A c \in HandlesFor(T) :
          LET e == Unwrap(Rec(c).result)
          IN  /\ e.T = T
              /\ heap[e.arc].tid = T
              /\ IsSome(downcast_ref(e))
              /\ downcast_ref(e) = Some(heap[e.arc].val)

\* Two distinct types are stored at once and a handle of each has been
\* returned by a lookup that found it.
C6_Witness ==
    /\ \A T \in Types : IsSome(map[T])
    /\ \E c \in HandlesFor("T1"), d \in HandlesFor("T2") :
          /\ Rec(c).path = "insert"
          /\ Rec(d).path = "insert"
    /\ \E c \in Completed : Rec(c).path \in {"fast", "recheck"}

\* C7: a call whose TypeId was present when it took the shared lock returns
\* a handle to that entry having acquired only the shared lock and without
\* calling its factory; while it holds the shared lock it holds no other
\* mode; and a caller asking for the shared lock is never kept waiting by
\* readers, only by a thread that upgrades or writes.
C7_FastPathSharedOnly ==
    /\ \A c \in Completed :
          Rec(c).seen =>
              /\ Rec(c).path = "fast"
              /\ Rec(c).locks = {"read"}
              /\ ~Rec(c).ran
              /\ IsSome(Rec(c).result)
              /\ map[Rec(c).typeid] = Some(Unwrap(Rec(c).result).arc)
    /\ \A t \in Threads :
          (pc[t] # "idle" /\ trace[t].seen) =>
              /\ pc[t] = "lookup"
              /\ trace[t].locks = {"read"}
              /\ ~trace[t].ran
              /\ t \in lock.readers
              /\ t \notin lock.upgradable \cup lock.upgrading \cup lock.writer
    /\ \A t \in Threads :
          (pc[t] = "read" /\ lock.writer = {} /\ lock.upgrading = {}) =>
              ENABLED LockShared(t)

\* Two fast-path callers hold the shared lock at the same time, both having
\* found their type present.
C7_Witness ==
    \E t, u \in Threads :
        /\ t # u
        /\ {t, u} \subseteq lock.readers
        /\ trace[t].seen /\ trace[u].seen
        /\ pc[t] = "lookup" /\ pc[u] = "lookup"

\* Thread t holds no mode of the lock.
HoldsNothing(t) ==
    t \notin lock.readers \cup lock.upgradable \cup lock.upgrading \cup lock.writer

\* C8: when the factory of a call unwinds under the write lock, the failure
\* reaches that caller (no handle), the step releases the write lock and
\* changes no entry, no allocation and no invocation count, a thread outside
\* get_or_init holds no lock mode, and every call in flight, before or after
\* the failure and for any type, still ends.
C8_UnwindLeavesRegistryUsable ==
    /\ [](\A c \in Completed :
             Rec(c).path = "unwind" => (Rec(c).result = None /\ Rec(c).ran))
    /\ [](\A t \in Threads : pc[t] = "idle" => HoldsNothing(t))
    /\ [][\A t \in Threads :
             (Acting(t) /\ pc[t] = "running" /\ pc'[t] = "idle") =>
                 /\ map' = map
                 /\ heap' = heap
                 /\ invoked' = invoked
                 /\ lock'.writer = {}
                 /\ pc'[t] = "idle"
                 /\ Len(hist'[t]) = Len(hist[t]) + 1]_vars
    /\ \A t \in Threads : (pc[t] # "idle") ~> (pc[t] = "idle")

\* A thread's factory unwound; afterwards the same thread got a handle for
\* another type that was absent (its factory ran) and then one for a type
\* that was present.
C8_Witness ==
    \E t \in Threads :
        /\ Len(hist[t]) = 3
        /\ hist[t][1].path = "unwind"
        /\ hist[t][2].path = "insert"
        /\ hist[t][2].typeid # hist[t][1].typeid
        /\ hist[t][3].path = "fast"
        /\ lock.writer = {}

\* Thread t is inside a get_or_init call made by the factory of its own
\* outer get_or_init call.
Nested(t) == outer[t] # << >>

\* C9: a call made from inside a factory on the same registry stays at its
\* first lock acquisition for ever: it never holds the shared lock, its thread
\* keeps the write lock of the outer call, and neither call returns.
C9_ReentryDeadlocks ==
    /\ [](\A t \in Threads :
             Nested(t) =>
                 /\ pc[t] = "read"
                 /\ trace[t].locks = {}
                 /\ t \notin lock.readers
                 /\ lock.writer = {t})
    /\ [][\A t \in Threads :
             Nested(t) =>
                 /\ outer'[t] = outer[t]
                 /\ pc'[t] = pc[t]
                 /\ hist'[t] = hist[t]
                 /\ lock' = lock
                 /\ map' = map]_vars

\* A factory re-entered for another type that is present in the map (a
\* lookup that would hit on the fast path), while another thread waits.
C9_Witness ==
    \E t, u \in Threads :
        /\ Nested(t)
        /\ typeid[t] # Head(outer[t]).typeid
        /\ IsSome(map[typeid[t]])
        /\ u # t
        /\ pc[u] = "read"

\* C10: with factories that return normally and do not re-enter, every call
\* that has returned gave a handle to the present entry of its type (there is
\* no other outcome), and under fair scheduling every call in flight returns.
C10_EveryCallReturnsAHandle ==
    /\ [](\A c \in Completed :
             /\ Rec(c).path \in {"fast", "recheck", "insert"}
             /\ IsSome(Rec(c).result)
             /\ Unwrap(Rec(c).result).T = Rec(c).typeid
             /\ map[Rec(c).typeid] = Some(Unwrap(Rec(c).result).arc))
    /\ \A t \in Threads : (pc[t] # "idle") ~> (pc[t] = "idle")

\* All the calls the bound allows have returned, two threads having
\* contended for one type (an insert and a re-check hit) and one call having
\* hit on the fast path.
C10_Witness ==
    /\ Quiescent
    /\ calls = MaxCalls
    /\ \E c, d, e \in Completed :
          /\ c[1] # d[1]
          /\ Rec(c).typeid = Rec(d).typeid
          /\ Rec(c).path = "insert"
          /\ Rec(d).path = "recheck"
          /\ Rec(e).path = "fast"

\* The lock modes thread t holds.
Modes(t) ==
    {m \in {"read", "upgradable", "upgrading", "write"} :
        \/ m = "read" /\ t \in lock.readers
        \/ m = "upgradable" /\ t \in lock.upgradable
        \/ m = "upgrading" /\ t \in lock.upgrading
        \/ m = "write" /\ t \in lock.writer}

\* The threads in the re-check / upgrade / insert phase of get_or_init.
InUpgradablePhase ==
    {t \in Threads : pc[t] \in {"recheck", "upgrade", "factory", "running", "insert"}
                     \/ Nested(t)}

\* C11: at most one thread holds the upgradable-read or write mode, so at
\* most one thread is in the re-check / upgrade / insert phase; a write holder
\* coexists with no shared reader. (That an upgradable holder coexists with
\* shared readers is the witness.)
C11_LockModesExclusive ==
    /\ Cardinality(lock.upgradable \cup lock.upgrading \cup lock.writer) <= 1
    /\ Cardinality(InUpgradablePhase) <= 1
    /\ InUpgradablePhase = lock.upgradable \cup lock.upgrading \cup lock.writer
    /\ lock.writer # {} => lock.readers = {}
    /\ \A t \in Threads :
          /\ pc[t] = "recheck" => Modes(t) = {"upgradable"}
          /\ pc[t] = "upgrade" => Modes(t) = {"upgrading"}
          /\ pc[t] \in {"factory", "running", "insert"} => Modes(t) = {"write"}

\* A thread holds the upgradable-read guard, not yet upgraded, while another
\* thread holds the shared guard.
C11_Witness ==
    \E t, u \in Threads :
        /\ t # u
        /\ pc[t] = "recheck" /\ Modes(t) = {"upgradable"}
        /\ pc[u] = "lookup" /\ Modes(u) = {"read"}

\* C12: a step that calls a factory or changes the map is taken by a thread
\* that holds the write mode, alone, obtained by upgrading its upgradable
\* guard after its re-check found the key absent; a step of a thread holding
\* only the shared or the un-upgraded upgradable mode calls no factory and
\* leaves the map as it is.
C12_OnlyTheWriterMutates ==
    /\ [][\A t \in Threads :
             (Acting(t) /\ (invoked' # invoked \/ map' # map)) =>
                 /\ lock.writer = {t}
                 /\ lock.readers = {} /\ lock.upgradable = {} /\ lock.upgrading = {}
                 /\ trace[t].locks = {"read", "upgradable", "write"}
                 /\ ~trace[t].seen
                 /\ map[typeid[t]] = None]_vars
    /\ [][\A t \in Threads :
             (Acting(t) /\ Modes(t) \subseteq {"read", "upgradable"}) =>
                 (invoked' = invoked /\ map' = map)]_vars
    /\ [](\A t \in Threads : trace[t].ran => lock.writer = {t})

\* The writer has called its factory and then changed the map, while another
\* thread was kept waiting for the lock.
C12_Witness ==
    \E t, u \in Threads :
        /\ t # u
        /\ Len(hist[t]) >= 1
        /\ hist[t][Len(hist[t])].path = "insert"
        /\ IsSome(map[hist[t][Len(hist[t])].typeid])
        /\ pc[u] \in {"read", "upgradable_read"}

\* C13: a call that missed on the fast path and finds its TypeId present on
\* the re-check returns a handle to that entry: the step changes neither the
\* map nor any invocation count and releases the upgradable guard, and the
\* call has never held the write mode nor called its factory.
C13_RecheckHitReturnsExisting ==
    /\ [][\A t \in Threads :
             (Acting(t) /\ pc[t] = "recheck" /\ IsSome(map[typeid[t]])) =>
                 /\ map' = map
                 /\ invoked' = invoked
                 /\ pc'[t] = "idle"
                 /\ lock'.upgradable = {} /\ lock'.upgrading = {} /\ lock'.writer = {}
                 /\ Len(hist'[t]) = Len(hist[t]) + 1
                 /\ hist'[t][Len(hist'[t])].result =
                        Some(EntryNew(typeid[t], Unwrap(map[typeid[t]])))]_vars
    /\ [](\A c \in Completed :
             Rec(c).path = "recheck" =>
                 /\ ~Rec(c).seen
                 /\ ~Rec(c).ran
                 /\ Rec(c).produced = None
                 /\ Rec(c).locks = {"read", "upgradable"}
                 /\ IsSome(Rec(c).result)
                 /\ map[Rec(c).typeid] = Some(Unwrap(Rec(c).result).arc))

\* A call returned on the re-check: the entry it got was inserted by another
\* thread between its two lookups.
C13_Witness ==
    \E c, d \in Completed :
        /\ c[1] # d[1]
        /\ Rec(c).path = "recheck"
        /\ ~Rec(c).seen
        /\ Rec(d).path = "insert"
        /\ Rec(d).typeid = Rec(c).typeid
        /\ Rec(d).result = Rec(c).result

\* C14: from its upgrade to its insert a call's TypeId is absent from the
\* map, so guard.insert never overwrites an entry and
\* debug_assert!(option.is_none()) never fails.
C14_InsertFindsKeyAbsent ==
    /\ ~assertFailed
    /\ \A t \in Threads :
          pc[t] \in {"upgrade", "factory", "running", "insert"} =>
              map[typeid[t]] = None

\* A thread has inserted while another call for the same type, which had
\* missed on the fast path too, waited for the upgradable-read lock.
C14_Witness ==
    \E t, u \in Threads :
        /\ t # u
        /\ Len(hist[t]) >= 1
        /\ hist[t][Len(hist[t])].path = "insert"
        /\ hist[t][Len(hist[t])].typeid = typeid[u]
        /\ pc[u] = "recheck"
        /\ ~trace[u].seen
        /\ ~assertFailed

\* The types for which a call is between its upgrade and the end of its
\* insert: its factory is about to run, runs, or has returned a value that is
\* not inserted yet.
Populating ==
    {T \in Types : \E t \in Threads :
        \/ pc[t] \in {"factory", "running", "insert"} /\ typeid[t] = T
        \/ \E i \in 1..Len(outer[t]) : outer[t][i].typeid = T}

\* The completed calls that inserted an entry.
Inserted == {c \in Completed : Rec(c).path = "insert"}

\* C15: while a call for T is between its upgrade and the end of its insert,
\* T is absent, no handle for T exists and no thread has seen T present; and
\* whenever a thread sees T present or holds a handle for T, a call for T has
\* completed whose factory returned the stored value and which inserted it.
C15_PresentOnlyAfterInsert ==
    /\ \A T \in Populating :
          /\ map[T] = None
          /\ HandlesFor(T) = {}
          /\ \A u \in Threads : ~(typeid[u] = T /\ trace[u].seen)
    /\ \A T \in Types :
          (\/ HandlesFor(T) # {}
           \/ \E u \in Threads : typeid[u] = T /\ trace[u].seen
           \/ \E u \in Threads : typeid[u] = T /\ pc[u] = "recheck" /\ IsSome(map[T]))
          => /\ T \notin Populating
             /\ IsSome(map[T])
             /\ \E c \in Inserted :
                   /\ Rec(c).typeid = T
                   /\ Rec(c).ran
                   /\ Rec(c).result = Some(EntryNew(T, Unwrap(map[T])))
                   /\ Rec(c).produced = Some(heap[Unwrap(map[T])].val)

\* A thread looks T up under the shared lock and finds it, after another
\* thread's call ran the factory for T and inserted its value.
C15_Witness ==
    \E t, u \in Threads :
        /\ t # u
        /\ \E i \in 1..Len(hist[t]) :
              /\ hist[t][i].path = "insert"
              /\ hist[t][i].typeid = typeid[u]
              /\ IsSome(hist[t][i].produced)
        /\ pc[u] = "lookup"
        /\ trace[u].seen

\* While thread t holds the write mode, no other thread is past a lock
\* acquisition or can pass one, and only threads outside a call take steps.
WriterBlocksAll ==
    /\ [](\A t, u \in Threads :
             (t # u /\ t \in lock.writer) =>
                 /\ pc[u] \in {"idle", "read", "upgradable_read"}
                 /\ Modes(u) = {}
                 /\ ~ENABLED LockShared(u)
                 /\ ~ENABLED LockUpgradable(u))
    /\ [][\A t, u \in Threads :
             (t # u /\ t \in lock.writer /\ Acting(u)) => pc[u] = "idle"]_vars

\* C16 (as stated): while one thread runs its factory under the write lock
\* no other call gets past its lock acquisition, and the write lock is
\* released only with the writer's entry inserted.
C16_ProceedOnlyAfterInsert ==
    /\ WriterBlocksAll
    /\ [][\A t \in Threads :
             (t \in lock.writer /\ t \notin lock'.writer) =>
                 IsSome(map'[typeid[t]])]_vars

\* C16 (amended): while one thread runs its factory under the write lock no
\* other call gets past its lock acquisition, fast-path lookups of another,
\* present type included; the write lock is released only by the writer's
\* insert, with its entry present, or by its factory unwinding, with its
\* entry absent.
C16_ProceedOnlyAfterRelease ==
    /\ WriterBlocksAll
    /\ [][\A t \in Threads :
             (t \in lock.writer /\ t \notin lock'.writer) =>
                 /\ Acting(t)
                 /\ pc'[t] = "idle"
                 /\ \/ pc[t] = "insert" /\ IsSome(map'[typeid[t]])
                    \/ pc[t] = "running" /\ map'[typeid[t]] = None /\ map' = map]_vars

\* One thread runs its factory for an absent type while another thread's
\* call for the other type, which is present, waits for the shared lock.
C16_Witness ==
    \E t, u \in Threads :
        /\ t # u
        /\ pc[t] = "running"
        /\ pc[u] = "read"
        /\ typeid[u] # typeid[t]
        /\ IsSome(map[typeid[u]])
        /\ ~ENABLED LockShared(u)

\* ------------------------------------------------------------ ownership
\* Entry::clone (line 112-116): Self::new(self.0.clone()), one more handle on
\* the same allocation.
EntryClone ==
    /\ BagCardinality(entries) < MaxEntries
    /\ \E e \in BagToSet(entries) :
          /\ heap' = ArcClone(heap, e.arc)
          /\ entries' = entries (+) SetToBag({EntryNew(e.T, e.arc)})
    /\ UNCHANGED << pc, typeid, arc, outer, lock, map, invoked, trace, hist,
                    assertFailed, calls, dropped >>

\* A handle goes out of scope: Entry (line 107) drops its Arc.
EntryDrop ==
    /\ \E e \in BagToSet(entries) :
          /\ heap' = ArcDrop(heap, e.arc)
          /\ entries' = entries (-) SetToBag({e})
    /\ UNCHANGED << pc, typeid, arc, outer, lock, map, invoked, trace, hist,
                    assertFailed, calls, dropped >>

\* The GenericGlobal (line 62) goes out of scope, which the borrow &self of a
\* call in flight forbids: the HashMap drops the Arc of each of its entries.
RegistryDrop ==
    /\ ~dropped
    /\ Quiescent
    /\ dropped' = TRUE
    /\ heap' = [a \in DOMAIN heap |->
                   [heap[a] EXCEPT !.strong =
                       @ - Cardinality({T \in Types : map[T] = Some(a)})]]
    /\ map' = [T \in Types |-> None]
    /\ UNCHANGED << pc, typeid, arc, outer, lock, invoked, trace, hist,
                    assertFailed, calls, entries >>

\* The registry with the lifetimes of its handles and its own: calls whose
\* factories return, handles cloned and dropped at any time, the registry
\* dropped when no call borrows it.
OwnershipNext ==
    \/ \E t \in Threads : Call(t) \/ Step(t)
    \/ EntryClone
    \/ EntryDrop
    \/ RegistryDrop

OwnershipSpec == Init /\ [][OwnershipNext]_vars

\* The holders of allocation a: the map entry, the handles, and the local
\* `arc` of a call between Arc::new (line 92) and its return (line 98).
Holders(a) ==
    LET S == {e \in BagToSet(entries) : e.arc = a}
    IN  Cardinality({T \in Types : ~dropped /\ map[T] = Some(a)})
        + BagCardinality([e \in S |-> entries[e]])
        + Cardinality({t \in Threads : arc[t] = Some(a)})

\* C17: the owner count of a stored value is one for the map entry, while
\* the registry exists, plus one per handle; so the value is destroyed (count
\* zero) only when no holder is left, and every handle, also one that
\* outlives the registry, dereferences to its value. Cloning a handle gives a
\* handle on the same allocation and one more owner; no step changes a value.
C17_SharedOwnership ==
    /\ [](\A a \in 1..Len(heap) : heap[a].strong = Holders(a))
    /\ [](\A e \in BagToSet(entries) :
             /\ heap[e.arc].strong >= 1
             /\ downcast_ref(e) = Some(heap[e.arc].val))
    /\ [][\A e \in BagToSet(entries) :
             (pc' = pc /\ ~dropped' /\ e \in BagToSet(entries')
                 /\ CopiesIn(e, entries') = CopiesIn(e, entries) + 1) =>
                 /\ heap'[e.arc].strong = heap[e.arc].strong + 1
                 /\ map' = map]_vars
    /\ [][\A a \in 1..Len(heap) :
             /\ heap'[a].val = heap[a].val
             /\ heap'[a].tid = heap[a].tid]_vars

\* The registry has been dropped. The handle one call returned and its clone
\* are the two owners of their value, which they dereference to; the value of
\* the other type, whose handle was dropped as well, is destroyed.
C17_Witness ==
    /\ dropped
    /\ \E e \in BagToSet(entries) :
          /\ Cardinality(CallsFor(e.T)) = 1
          /\ CopiesIn(e, entries) = 2
          /\ heap[e.arc].strong = 2
          /\ IsSome(downcast_ref(e))
    /\ \E a \in 1..Len(heap) : heap[a].strong = 0

\* C18: a thread outside get_or_init holds no lock mode, whichever way its
\* calls ended (fast-path hit, re-check hit, insert, factory unwinding); a
\* thread holds the shared mode only during its fast-path lookup, so a thread
\* that asks or waits for the upgradable or the write mode holds no shared
\* mode.
C18_NoLockOutsideCall ==
    /\ \A t \in Threads : pc[t] = "idle" => Modes(t) = {}
    /\ \A c \in Completed : Rec(c).path \in {"fast", "recheck", "insert", "unwind"}
    /\ \A t \in Threads :
          "read" \in Modes(t) => (pc[t] = "lookup" /\ Modes(t) = {"read"})
    /\ \A t \in Threads :
          (pc[t] = "upgradable_read" /\ "read" \in trace[t].locks) => Modes(t) = {}
    /\ \A t \in Threads :
          pc[t] \in {"upgradable_read", "recheck", "upgrade"} => t \notin lock.readers

\* All calls have ended, by a factory unwinding, by an insert and by a
\* re-check hit, and no thread holds any lock mode.
C18_Witness ==
    /\ Quiescent
    /\ \A t \in Threads : Modes(t) = {}
    /\ \A p \in {"unwind", "insert", "recheck"} :
          \E c \in Completed : Rec(c).path = p

\* The allocations of runtime type T: the values factories for T returned.
Produced(T) == {a \in 1..Len(heap) : heap[a].tid = T}

\* C19: a factory that unwinds leaves its type absent and the map and the
\* allocations as they were; while T is absent every completed call for T
\* has run its factory and unwound, so a call for T after an unwinding runs
\* its factory again; and at most one factory invocation for T ever returns
\* a value and inserts it.
C19_UnwindKeepsAbsentOneSucceeds ==
    /\ [][\A t \in Threads :
             (Acting(t) /\ pc[t] = "running" /\ pc'[t] = "idle") =>
                 /\ map[typeid[t]] = None
                 /\ map' = map
                 /\ heap' = heap]_vars
    /\ [](\A T \in Types :
             map[T] = None =>
                 \A c \in CallsFor(T) :
                     Rec(c).ran /\ Rec(c).path = "unwind" /\ Rec(c).result = None)
    /\ [](\A T \in Types :
             /\ Cardinality(Produced(T)) <= 1
             /\ Cardinality({c \in Inserted : Rec(c).typeid = T}) <= 1
             /\ invoked[T] - Unwound(T) <= 1)

\* A thread's factory for T unwound, and its next call for T ran its factory
\* again and inserted: two invocations, one entry.
C19_Witness ==
    \E t \in Threads :
        /\ Len(hist[t]) >= 2
        /\ hist[t][1].path = "unwind"
        /\ hist[t][2].path = "insert"
        /\ hist[t][2].typeid = hist[t][1].typeid
        /\ hist[t][2].ran
        /\ invoked[hist[t][1].typeid] = 2
        /\ Cardinality(Produced(hist[t][1].typeid)) = 1

\* The TypeIds present in the map.
Present == {T \in Types : IsSome(map[T])}

\* C20: the map starts empty; the present TypeIds are exactly the types of
\* the calls whose factory returned a value and which inserted it; the number
\* of entries is the number of those calls, it is the number of values
\* factories returned whenever the write lock is free (and one less per call
\* that stands between its factory's return and its insert), and no step
\* removes a TypeId.
C20_PresentAreTheInserted ==
    /\ [](calls = 0 => Present = {})
    /\ [](Present = {Rec(c).typeid : c \in Inserted})
    /\ [](Cardinality(Present) = Cardinality(Inserted))
    /\ [](\A c \in Inserted : Rec(c).ran /\ IsSome(Rec(c).produced))
    /\ []((lock.writer = {}) => Cardinality(Present) = Len(heap))
    /\ [](Cardinality(Present) =
              Len(heap) - Cardinality({t \in Threads : pc[t] = "insert"}))
    /\ [][Present \subseteq Present']_vars

\* Three factory invocations, one unwound and two inserted: two entries.
C20_Witness ==
    /\ Present = Types
    /\ Len(heap) = 2
    /\ Cardinality(Inserted) = 2
    /\ \E c \in Completed : Rec(c).path = "unwind"

====
